---- MODULE Spec2Model ----
(***************************************************************************)
(* Model of src/app/app.py: the in-memory job table `jobs`, the /download  *)
(* dispatcher, the background worker process_download with the two         *)
(* external commands it runs (yt-dlp, aws s3 cp), the download directory   *)
(* on disk, what GET /status/<job_id> answers in each state, and the two   *)
(* yt-dlp probes check_live and channel_info.                              *)
(*                                                                         *)
(* Every assignment to a key of jobs[job_id] is one step of the worker:    *)
(* Flask serves requests on threads of their own and each worker is a      *)
(* threading.Thread, so a reader or another worker can run between any two *)
(* statements of process_download.                                         *)
(***************************************************************************)
EXTENDS Integers, Sequences, FiniteSets, TLC

\* ---------------------------------------------------------------- bounds
MaxPipelines == 2      \* worker threads started over the whole run
MaxItems == 2          \* longest array body of one POST /download
NumSuffixes == 2       \* distinct values of uuid.uuid4().hex[:8] explored
MaxChannelLen == 2     \* longest channel parameter of a probe request
MaxStderrLines == 2    \* most lines yt-dlp writes to stderr in one probe

\* ---------------------------------------------------------------- values
None == "None"         \* Python None
Absent == "absent"     \* a key a dict does not have
NoTuple == <<>>        \* an absent key whose values are tuples

VideoIds == {"v1", "v2"}
Suffixes == 1..NumSuffixes
ExitCodes == {0, 1}
Exts == <<"mkv", "mp4", "webm">>
ExtSet == {Exts[k] : k \in 1..Len(Exts)}

\* the request items explored: the item with every key absent is {}
MkItem(v, u, b, t) == [videoId |-> v, videoUrl |-> u, bucket |-> b, title |-> t]
EmptyItem == MkItem(Absent, Absent, Absent, Absent)
Items ==
    { MkItem("v1", "u1", "b1", "T1"),
      MkItem("v1", "u1", Absent, Absent),
      MkItem("v2", "u2", "b1", Absent),
      MkItem(Absent, "u1", "b1", Absent),
      MkItem("v2", Absent, Absent, Absent),
      EmptyItem }

VARIABLES
    BACKUP_BUCKET,   \* os.environ.get('BACKUP_BUCKET')
    jobs,            \* the module-level dict jobs: job_id -> record
    threads,         \* the worker threads started so far, in start order
    dirs,            \* the directories under DOWNLOAD_DIR that exist
    files,           \* per directory, the extensions e with <video_id>.e on disk
    req,             \* the POST /download request being handled
    probe            \* the GET /check-live or /channel-info request being handled

vars == <<BACKUP_BUCKET, jobs, threads, dirs, files, req, probe>>

\* ------------------------------------------------------------ dict helpers
Truthy(x) == x \notin {None, Absent, ""}

\* item.get(key): None when the key is absent
Get(item, key) == IF item[key] = Absent THEN None ELSE item[key]

\* item.get(key, default)
GetOr(item, key, default) == IF item[key] = Absent THEN default ELSE item[key]

\* ------------------------------------------------------------ request bodies
\* A body is one object (list = FALSE, items = <<object>>) or an array.
Single(item) == [list |-> FALSE, items |-> <<item>>]
Array(items) == [list |-> TRUE, items |-> items]

SeqsUpTo(S, n) == UNION {[1..k -> S] : k \in 0..n}

\* every body of up to MaxItems items, and the one-object bodies
Bodies == {Single(it) : it \in Items} \cup {Array(s) : s \in SeqsUpTo(Items, MaxItems)}
\* one-object bodies for one target id: with its own bucket, without one, and
\* one without a videoId
ObjectBodies ==
    { Single(MkItem("v1", "u1", "b1", "T1")),
      Single(MkItem("v1", "u1", Absent, Absent)),
      Single(MkItem(Absent, "u1", "b1", Absent)) }

\* `not data`: an empty array and the object {} are both falsy
Falsy(data) ==
    IF data.list THEN data.items = <<>> ELSE data.items[1] = EmptyItem

\* ------------------------------------------------------------ dispatcher helpers
\* the bucket the dispatcher validates: item.get('bucket', BACKUP_BUCKET)
DispatchBucket(item, backup) == GetOr(item, "bucket", backup)

\* the test without its bucket operand
Valid_SkipBucket(item, backup) ==
    Truthy(Get(item, "videoId")) /\ Truthy(Get(item, "videoUrl"))

\* all([video_id, video_url, bucket])
Valid(item, backup) ==
    /\ Truthy(Get(item, "videoId"))
    /\ Truthy(Get(item, "videoUrl"))
    /\ Truthy(DispatchBucket(item, backup))

\* f"{video_id}-{uuid.uuid4().hex[:8]}"
JobId(video_id, suffix) == <<video_id, suffix>>
JobIds == {JobId(v, s) : v \in VideoIds, s \in Suffixes}

MissingMsg == "Missing required fields: videoId, videoUrl (and BACKUP_BUCKET not set)"

\* one entry of results; a key the dict does not have is Absent / NoTuple
FailureResult(item) ==
    [job_id |-> NoTuple, video_id |-> Absent, videoId |-> Get(item, "videoId"),
     title |-> Absent, status |-> Absent, success |-> "False", error |-> MissingMsg]

AckResult(job_id, item) ==
    [job_id |-> job_id, video_id |-> Get(item, "videoId"), videoId |-> Absent,
     title |-> GetOr(item, "title", "Unknown"), status |-> "queued",
     success |-> Absent, error |-> Absent]

\* the record the dispatcher stores under jobs[job_id]
NewJob(job_id, item) ==
    [job_id |-> job_id, video_id |-> Get(item, "videoId"),
     title |-> GetOr(item, "title", "Unknown"), status |-> "queued",
     created_at |-> "ts", started_at |-> Absent, s3_uri |-> NoTuple,
     completed_at |-> Absent, error |-> NoTuple, failed_at |-> Absent]

\* jobs[job_id] = record: a plain dict store
Put(table, job_id, record) ==
    [j \in DOMAIN table \cup {job_id} |-> IF j = job_id THEN record ELSE table[j]]

NoResult ==
    [job_id |-> NoTuple, video_id |-> Absent, videoId |-> Absent, title |-> Absent,
     status |-> Absent, success |-> Absent, error |-> Absent]

\* the return without its isinstance test
Respond_AlwaysArray(data, results) ==
    [code |-> 200, shape |-> "array", one |-> NoResult, many |-> results]

\* jsonify(results[0]) for an object body, jsonify(results) for an array
Respond(data, results) ==
    IF ~data.list
    THEN [code |-> 200, shape |-> "object", one |-> results[1], many |-> <<>>]
    ELSE [code |-> 200, shape |-> "array", one |-> NoResult, many |-> results]

NoBodyResponse ==
    [code |-> 400, shape |-> "object",
     one |-> [NoResult EXCEPT !.error = "No JSON body provided"],
     many |-> <<>>]

NoResponse == [code |-> 0, shape |-> "none", one |-> NoResult, many |-> <<>>]

IdleReq ==
    [pc |-> "idle", data |-> Array(<<>>), i |-> 0, results |-> <<>>,
     job_id |-> NoTuple, response |-> NoResponse]

NumValid(data, backup) ==
    Cardinality({k \in 1..Len(data.items) : Valid(data.items[k], backup)})

\* ------------------------------------------------------------ worker helpers
\* the bucket the worker uploads to: item.get('bucket')
WorkerBucket(item) == Get(item, "bucket")

\* the first of mkv, mp4, webm that exists in the directory, None when none does
RECURSIVE FindFrom(_, _)
FindFrom(k, present) ==
    IF k > Len(Exts) THEN None
    ELSE IF Exts[k] \in present THEN Exts[k]
    ELSE FindFrom(k + 1, present)

\* download_video without its returncode test
DownloadOutcome_IgnoreExit(rc, present) ==
    IF FindFrom(1, present) # None
    THEN [raised |-> FALSE, e |-> NoTuple, path |-> FindFrom(1, present)]
    ELSE [raised |-> TRUE, e |-> <<"Could not find downloaded file">>, path |-> None]

\* download_video after process.wait(): what it raises or returns
DownloadOutcome(rc, present) ==
    IF rc # 0
    THEN [raised |-> TRUE, e |-> <<"yt-dlp failed with return code", rc>>, path |-> None]
    ELSE IF FindFrom(1, present) # None
    THEN [raised |-> FALSE, e |-> NoTuple, path |-> FindFrom(1, present)]
    ELSE [raised |-> TRUE, e |-> <<"Could not find downloaded file">>, path |-> None]

\* s3_uri = f"s3://{bucket}/{video_id}/{filename}"
S3Uri(bucket, video_id, ext) == <<bucket, video_id, ext>>

\* upload_to_s3 without its returncode test
UploadOutcome_IgnoreExit(rc, uri) == [raised |-> FALSE, e |-> NoTuple, uri |-> uri]

\* upload_to_s3 after process.wait(): what it raises or returns
UploadOutcome(rc, uri) ==
    IF rc # 0
    THEN [raised |-> TRUE, e |-> <<"S3 upload failed with return code", rc>>, uri |-> NoTuple]
    ELSE [raised |-> FALSE, e |-> NoTuple, uri |-> uri]

\* threading.Thread(target=process_download, args=(job_id, item)) before it runs
NewThread(job_id, item) ==
    [job_id |-> job_id, item |-> item, pc |-> "l183",
     local_path |-> None, s3_uri |-> NoTuple, e |-> NoTuple,
     fetches |-> <<>>, uploads |-> <<>>]

Tids == 1..Len(threads)
VideoOf(t) == Get(threads[t].item, "videoId")

\* ------------------------------------------------------------ probe values
\* the characters of a channel parameter: one of each kind the character class
\* [a-zA-Z0-9@_-] names, and three outside it
NL == "\n"
ClassChars == {"a", "Z", "7", "@", "_", "-"}
OtherChars == {"/", " ", NL}
Chars == ClassChars \cup OtherChars

\* request.args.get('channel'): a string, the empty one when the parameter is
\* missing or empty (both are falsy)
Channels == SeqsUpTo(Chars, MaxChannelLen)

\* [a-zA-Z0-9@_-]+ is greedy: from position k it takes every class character
RECURSIVE ClassRun(_, _)
ClassRun(s, k) ==
    IF k < Len(s) /\ s[k + 1] \in ClassChars THEN ClassRun(s, k + 1) ELSE k

\* $ without re.MULTILINE matches at the end of the string and also just
\* before a newline that is the last character of the string
DollarAt(s, k) == k = Len(s) \/ (k = Len(s) - 1 /\ s[Len(s)] = NL)

\* re.match(r'^[a-zA-Z0-9@_-]+$', s) is not None. Giving characters back
\* cannot help: the character after a shorter run is a class character, so $
\* fails there.
ChannelMatch(s) == ClassRun(s, 0) >= 1 /\ DollarAt(s, ClassRun(s, 0))

\* s.startswith(prefix)
StartsWith(s, prefix) ==
    Len(s) >= Len(prefix) /\ \A k \in 1..Len(prefix) : s[k] = prefix[k]

\* the last argument of the yt-dlp command of check_live
LiveUrl(channel) == <<"https://www.youtube.com/", channel, "/live">>

\* the last argument of the yt-dlp command of channel_info
InfoUrl(channel) ==
    IF StartsWith(channel, <<"@">>) THEN <<"https://www.youtube.com/", channel>>
    ELSE IF ~StartsWith(channel, <<"h", "t", "t", "p">>)
    THEN <<"https://www.youtube.com/@", channel>>
    ELSE <<channel>>

\* lines yt-dlp writes to stderr, as it writes them
StderrLines ==
    { "ERROR: Join this channel to get access",
      "ERROR: This video is members-only",
      "ERROR: Sign in to confirm you're not a bot",
      "Use --cookies for the authentication",
      "ERROR: HTTP Error 429: Too Many Requests",
      "ERROR: HTTP Error 404: Not Found",
      "ERROR: This channel does not exist",
      "ERROR: The channel is not currently live" }

\* process.stderr: some of these lines
Stderrs == {e \in SUBSET StderrLines : Cardinality(e) <= MaxStderrLines}

\* str.lower() of one line
LowerLine(line) ==
    CASE line = "ERROR: Join this channel to get access" -> "error: join this channel to get access"
      [] line = "ERROR: This video is members-only" -> "error: this video is members-only"
      [] line = "ERROR: Sign in to confirm you're not a bot" -> "error: sign in to confirm you're not a bot"
      [] line = "Use --cookies for the authentication" -> "use --cookies for the authentication"
      [] line = "ERROR: HTTP Error 429: Too Many Requests" -> "error: http error 429: too many requests"
      [] line = "ERROR: HTTP Error 404: Not Found" -> "error: http error 404: not found"
      [] line = "ERROR: This channel does not exist" -> "error: this channel does not exist"
      [] line = "ERROR: The channel is not currently live" -> "error: the channel is not currently live"
      [] OTHER -> line

\* process.stderr.lower()
Lower(text) == {LowerLine(line) : line \in text}

\* the phrases the handlers look for
Needles ==
    { "join this channel", "members-only", "sign in", "cookie", "429",
      "too many requests", "404", "does not exist", "not found" }

\* the needles that are substrings of a line, compared character by character
\* (so with their case)
NeedlesIn(line) ==
    CASE line = "error: join this channel to get access" -> {"join this channel"}
      [] line \in {"ERROR: This video is members-only", "error: this video is members-only"}
           -> {"members-only"}
      [] line = "error: sign in to confirm you're not a bot" -> {"sign in"}
      [] line \in {"Use --cookies for the authentication", "use --cookies for the authentication"}
           -> {"cookie"}
      [] line = "ERROR: HTTP Error 429: Too Many Requests" -> {"429"}
      [] line = "error: http error 429: too many requests" -> {"429", "too many requests"}
      [] line = "ERROR: HTTP Error 404: Not Found" -> {"404"}
      [] line = "error: http error 404: not found" -> {"404", "not found"}
      [] line \in {"ERROR: This channel does not exist", "error: this channel does not exist"}
           -> {"does not exist"}
      [] OTHER -> {}

\* needle in text
In(needle, text) == \E line \in text : needle \in NeedlesIn(line)

\* process.stdout: nothing, text that is no JSON, or the JSON object of a
\* stream that is live, that is not, or that does not say
NoOutput == ""
NotJson == "WARNING: unable to extract"
JsonLive == "{is_live: true}"
JsonOffline == "{is_live: false}"
JsonBare == "{}"
Stdouts == {NoOutput, NotJson, JsonLive, JsonOffline, JsonBare}

\* json.loads(stdout): ok is FALSE where it raises JSONDecodeError; is_live is
\* what data.get('is_live') then returns
JsonLoads(stdout) ==
    CASE stdout = JsonLive -> [ok |-> TRUE, is_live |-> "True"]
      [] stdout = JsonOffline -> [ok |-> TRUE, is_live |-> "False"]
      [] stdout = JsonBare -> [ok |-> TRUE, is_live |-> None]
      [] OTHER -> [ok |-> FALSE, is_live |-> None]

\* how subprocess.run ends: it returns a CompletedProcess, raises
\* TimeoutExpired, or raises something else (yt-dlp missing, no memory)
OsErrors == {"[Errno 2] No such file or directory: 'yt-dlp'", "[Errno 12] Cannot allocate memory"}
NoOutcome == [kind |-> "none", stderr |-> {}, rc |-> 0, stdout |-> NoOutput, msg |-> Absent]
CompletedOutcomes ==
    {[NoOutcome EXCEPT !.kind = "completed", !.stderr = e, !.rc = rc, !.stdout = out] :
        e \in Stderrs, rc \in ExitCodes, out \in Stdouts}
TimeoutOutcome == [NoOutcome EXCEPT !.kind = "timeout"]
RaisedOutcomes == {[NoOutcome EXCEPT !.kind = "raised", !.msg = m] : m \in OsErrors}
Outcomes == CompletedOutcomes \cup {TimeoutOutcome} \cup RaisedOutcomes

\* a JSON response and its status code; Absent marks a key the body lacks
ProbeResponse(code, is_live, stream, error, detail) ==
    [code |-> code, is_live |-> is_live, stream |-> stream, error |-> error,
     detail |-> detail, data |-> Absent]
NoProbeResponse == ProbeResponse(0, Absent, Absent, Absent, Absent)

\* check_live with the sign-in test moved before the members-only test
Classify_AuthFirst(text, rc, stdout) ==
    LET stderr == Lower(text)
    IN IF In("sign in", stderr) \/ In("cookie", stderr)
       THEN ProbeResponse(401, "False", None, "auth_expired", "Cookies need refresh")
       ELSE IF In("join this channel", stderr) \/ In("members-only", stderr)
       THEN ProbeResponse(200, "False", None, "members_only_no_access", Absent)
       ELSE IF In("429", stderr) \/ In("too many requests", stderr)
       THEN ProbeResponse(429, "False", None, "Rate limited by YouTube", Absent)
       ELSE IF In("404", stderr) \/ In("does not exist", stderr)
       THEN ProbeResponse(404, "False", None, "Channel not found", Absent)
       ELSE IF rc = 0 /\ stdout # NoOutput /\ JsonLoads(stdout).ok
               /\ JsonLoads(stdout).is_live = "True"
       THEN ProbeResponse(200, "True", "stream", None, Absent)
       ELSE ProbeResponse(200, "False", None, None, Absent)

\* check_live after subprocess.run returned: the tests on stderr in the order
\* of the code, then the test on returncode and stdout, then the fallback
Classify(text, rc, stdout) ==
    LET stderr == Lower(text)
    IN IF In("join this channel", stderr) \/ In("members-only", stderr)
       THEN ProbeResponse(200, "False", None, "members_only_no_access", Absent)
       ELSE IF In("sign in", stderr) \/ In("cookie", stderr)
       THEN ProbeResponse(401, "False", None, "auth_expired", "Cookies need refresh")
       ELSE IF In("429", stderr) \/ In("too many requests", stderr)
       THEN ProbeResponse(429, "False", None, "Rate limited by YouTube", Absent)
       ELSE IF In("404", stderr) \/ In("does not exist", stderr)
       THEN ProbeResponse(404, "False", None, "Channel not found", Absent)
       ELSE IF rc = 0 /\ stdout # NoOutput /\ JsonLoads(stdout).ok
               /\ JsonLoads(stdout).is_live = "True"
       THEN ProbeResponse(200, "True", "stream", None, Absent)
       ELSE ProbeResponse(200, "False", None, None, Absent)

\* check_live without its except clauses: Flask answers the exception with
\* its own 500 page
CheckLiveResult_Unhandled(outcome) ==
    IF outcome.kind = "completed"
    THEN Classify(outcome.stderr, outcome.rc, outcome.stdout)
    ELSE ProbeResponse(500, Absent, Absent, Absent, Absent)

\* what check_live returns for each way subprocess.run can end
CheckLiveResult(outcome) ==
    IF outcome.kind = "timeout"
    THEN ProbeResponse(500, "False", None, "Failed to check stream status", "Timeout")
    ELSE IF outcome.kind = "raised"
    THEN ProbeResponse(500, "False", None, "Failed to check stream status", outcome.msg)
    ELSE Classify(outcome.stderr, outcome.rc, outcome.stdout)

\* what channel_info returns for each way subprocess.run can end
ChannelInfoResult(outcome) ==
    IF outcome.kind = "timeout"
    THEN ProbeResponse(500, Absent, Absent, "Timeout fetching channel info", Absent)
    ELSE IF outcome.kind = "raised"
    THEN ProbeResponse(500, Absent, Absent, "Internal server error", outcome.msg)
    ELSE IF outcome.rc # 0
    THEN IF In("404", Lower(outcome.stderr)) \/ In("not found", Lower(outcome.stderr))
         THEN ProbeResponse(404, Absent, Absent, "Channel not found", Absent)
         ELSE ProbeResponse(500, Absent, Absent, "Failed to fetch channel info", "process.stderr")
    ELSE IF JsonLoads(outcome.stdout).ok
    THEN [ProbeResponse(200, Absent, Absent, Absent, Absent) EXCEPT !.data = outcome.stdout]
    ELSE ProbeResponse(500, Absent, Absent, "Failed to parse channel info", Absent)

\* no probe request is being handled
IdleProbe ==
    [pc |-> "idle", route |-> None, channel |-> <<>>, url |-> NoTuple,
     outcome |-> NoOutcome, response |-> NoProbeResponse]

\* ------------------------------------------------------------ initial state
\* a body that is no job record (the 404 answer)
NoRecord == [NewJob(NoTuple, EmptyItem) EXCEPT !.status = Absent, !.created_at = Absent]

Init ==
    /\ BACKUP_BUCKET \in {None, "dflt"}
    /\ jobs = <<>>
    /\ threads = <<>>
    /\ dirs = {}
    /\ files = [v \in VideoIds |-> {}]
    /\ req = IdleReq
    /\ probe = IdleProbe

\* ------------------------------------------------------------ POST /download
\* data = request.get_json(); the 400 for a falsy body; items and results
Receive(data) ==
    /\ req.pc = "idle"
    /\ Len(threads) + NumValid(data, BACKUP_BUCKET) <= MaxPipelines
    /\ req' = IF Falsy(data)
              THEN [IdleReq EXCEPT !.pc = "returned", !.data = data,
                                   !.response = NoBodyResponse]
              ELSE [IdleReq EXCEPT !.pc = "loop", !.data = data, !.i = 1]
    /\ UNCHANGED <<probe, BACKUP_BUCKET, jobs, threads, dirs, files>>

\* one pass of the loop body for an item that fails all([...])
RejectItem ==
    /\ req.pc = "loop"
    /\ req.i <= Len(req.data.items)
    /\ ~Valid(req.data.items[req.i], BACKUP_BUCKET)
    /\ req' = [req EXCEPT !.results = Append(@, FailureResult(req.data.items[req.i])),
                          !.i = @ + 1]
    /\ UNCHANGED <<probe, BACKUP_BUCKET, jobs, threads, dirs, files>>

\* the loop body of a valid item up to jobs[job_id] = {...}
Register ==
    /\ req.pc = "loop"
    /\ req.i <= Len(req.data.items)
    /\ Valid(req.data.items[req.i], BACKUP_BUCKET)
    /\ \E suffix \in Suffixes :
         LET item == req.data.items[req.i]
             job_id == JobId(Get(item, "videoId"), suffix)
         IN /\ jobs' = Put(jobs, job_id, NewJob(job_id, item))
            /\ req' = [req EXCEPT !.pc = "start", !.job_id = job_id]
    /\ UNCHANGED <<probe, BACKUP_BUCKET, threads, dirs, files>>

\* thread.start() and results.append({... 'status': 'queued'})
StartThread ==
    /\ req.pc = "start"
    /\ threads' = Append(threads, NewThread(req.job_id, req.data.items[req.i]))
    /\ req' = [req EXCEPT !.pc = "loop", !.job_id = NoTuple, !.i = @ + 1,
                          !.results = Append(@, AckResult(req.job_id, req.data.items[req.i]))]
    /\ UNCHANGED <<probe, BACKUP_BUCKET, jobs, dirs, files>>

\* the return after the loop
Return ==
    /\ req.pc = "loop"
    /\ req.i > Len(req.data.items)
    /\ req' = [req EXCEPT !.pc = "returned", !.response = Respond(req.data, req.results)]
    /\ UNCHANGED <<probe, BACKUP_BUCKET, jobs, threads, dirs, files>>

\* the response is sent and the request context is gone
Close ==
    /\ req.pc = "returned"
    /\ req' = IdleReq
    /\ UNCHANGED <<probe, BACKUP_BUCKET, jobs, threads, dirs, files>>

\* ------------------------------------------------------------ GET /status/<job_id>
\* what job_status(job_id) returns when it runs in the current state
JobStatus(job_id) ==
    IF job_id \notin DOMAIN jobs
    THEN [code |-> 404, body |-> NoRecord]
    ELSE [code |-> 200, body |-> jobs[job_id]]

\* ------------------------------------------------------------ process_download
At(t, label) == threads[t].pc = label

\* jobs[job_id][key] = value, and on to the next statement
Assign(t, key, value, next) ==
    /\ jobs' = [jobs EXCEPT ![threads[t].job_id][key] = value]
    /\ threads' = [threads EXCEPT ![t].pc = next]
    /\ UNCHANGED <<probe, BACKUP_BUCKET, dirs, files, req>>

\* jobs[job_id]['status'] = 'downloading'
SetDownloading(t) == At(t, "l183") /\ Assign(t, "status", "downloading", "l184")

\* jobs[job_id]['started_at'] = datetime.now().isoformat()
SetStartedAt(t) == At(t, "l184") /\ Assign(t, "started_at", "ts", "l191")

\* os.makedirs(output_dir, exist_ok=True): it creates the directory or raises
MakeDirs(t) ==
    /\ At(t, "l191")
    /\ \E ok \in BOOLEAN :
         IF ok
         THEN /\ dirs' = dirs \cup {VideoOf(t)}
              /\ threads' = [threads EXCEPT ![t].pc = "l194"]
         ELSE /\ dirs' = dirs
              /\ threads' = [threads EXCEPT ![t].pc = "l213", ![t].e = <<"makedirs failed">>]
    /\ UNCHANGED <<probe, BACKUP_BUCKET, jobs, files, req>>

\* the second jobs[job_id]['status'] = 'downloading'
SetDownloadingAgain(t) == At(t, "l194") /\ Assign(t, "status", "downloading", "l109")

\* download_video up to process.wait(): yt-dlp runs to its end, it exits with rc
\* and, on exit 0, has written <video_id>.<ext> or nothing the worker looks for
RunYtDlp(t) ==
    /\ At(t, "l109")
    /\ \E rc \in ExitCodes, out \in ExtSet \cup {None} :
         /\ rc # 0 => out = None
         /\ files' = IF out = None THEN files
                     ELSE [files EXCEPT ![VideoOf(t)] = @ \cup {out}]
         /\ threads' = [threads EXCEPT ![t].pc = "l125", ![t].fetches = Append(@, rc)]
    /\ UNCHANGED <<probe, BACKUP_BUCKET, jobs, dirs, req>>

\* download_video from the returncode test to its return or raise
LocateFile(t) ==
    /\ At(t, "l125")
    /\ LET rc == threads[t].fetches[Len(threads[t].fetches)]
           present == IF VideoOf(t) \in dirs THEN files[VideoOf(t)] ELSE {}
           r == DownloadOutcome(rc, present)
       IN threads' = IF r.raised
                     THEN [threads EXCEPT ![t].pc = "l213", ![t].e = r.e]
                     ELSE [threads EXCEPT ![t].pc = "l198", ![t].local_path = r.path]
    /\ UNCHANGED <<probe, BACKUP_BUCKET, jobs, dirs, files, req>>

\* jobs[job_id]['status'] = 'uploading'
SetUploading(t) == At(t, "l198") /\ Assign(t, "status", "uploading", "l199")

\* upload_to_s3: aws s3 cp runs to its end; it can exit 0 only if the file is there
Upload(t) ==
    /\ At(t, "l199")
    /\ \E rc \in ExitCodes :
         LET uri == S3Uri(WorkerBucket(threads[t].item), VideoOf(t), threads[t].local_path)
             r == UploadOutcome(rc, uri)
         IN /\ rc = 0 => threads[t].local_path \in files[VideoOf(t)]
            /\ threads' =
                 IF r.raised
                 THEN [threads EXCEPT ![t].pc = "l213", ![t].e = r.e,
                                      ![t].uploads = Append(@, [uri |-> uri, rc |-> rc])]
                 ELSE [threads EXCEPT ![t].pc = "l203", ![t].s3_uri = r.uri,
                                      ![t].uploads = Append(@, [uri |-> uri, rc |-> rc])]
    /\ UNCHANGED <<probe, BACKUP_BUCKET, jobs, dirs, files, req>>

\* os.remove(local_path): it removes the file or raises; it raises if the file is gone
RemoveFile(t) ==
    /\ At(t, "l203")
    /\ \E ok \in BOOLEAN :
         /\ ok => threads[t].local_path \in files[VideoOf(t)]
         /\ IF ok
            THEN /\ files' = [files EXCEPT ![VideoOf(t)] = @ \ {threads[t].local_path}]
                 /\ threads' = [threads EXCEPT ![t].pc = "l204"]
            ELSE /\ files' = files
                 /\ threads' = [threads EXCEPT ![t].pc = "l213", ![t].e = <<"remove failed">>]
    /\ UNCHANGED <<probe, BACKUP_BUCKET, jobs, dirs, req>>

\* os.rmdir(output_dir): it raises if the directory is gone or not empty
RemoveDir(t) ==
    /\ At(t, "l204")
    /\ \E ok \in BOOLEAN :
         /\ ok => (VideoOf(t) \in dirs /\ files[VideoOf(t)] = {})
         /\ IF ok
            THEN /\ dirs' = dirs \ {VideoOf(t)}
                 /\ threads' = [threads EXCEPT ![t].pc = "l206"]
            ELSE /\ dirs' = dirs
                 /\ threads' = [threads EXCEPT ![t].pc = "l213", ![t].e = <<"rmdir failed">>]
    /\ UNCHANGED <<probe, BACKUP_BUCKET, jobs, files, req>>

\* the three assignments of the success path
SetCompleted(t) == At(t, "l206") /\ Assign(t, "status", "completed", "l207")
SetS3Uri(t) == At(t, "l207") /\ Assign(t, "s3_uri", threads[t].s3_uri, "l208")
SetCompletedAt(t) == At(t, "l208") /\ Assign(t, "completed_at", "ts", "done")

\* an exception that no except clause catches: the thread ends where it is
SetFailed_Uncaught(t) ==
    /\ At(t, "l213")
    /\ threads' = [threads EXCEPT ![t].pc = "done"]
    /\ UNCHANGED <<probe, BACKUP_BUCKET, jobs, dirs, files, req>>

\* the three assignments of the except block
SetFailed(t) == At(t, "l213") /\ Assign(t, "status", "failed", "l214")
SetError(t) == At(t, "l214") /\ Assign(t, "error", threads[t].e, "l215")
SetFailedAt(t) == At(t, "l215") /\ Assign(t, "failed_at", "ts", "done")

\* ------------------------------------------------------------ specification
\* download() serving the bodies its clients send
Dispatch(bodies) ==
    \/ \E data \in bodies : Receive(data)
    \/ RejectItem
    \/ Register
    \/ StartThread
    \/ Return
    \/ Close

\* the whole service, its clients posting one object at a time
Next ==
    \/ Dispatch(ObjectBodies)
    \/ \E t \in Tids : SetDownloading(t)
    \/ \E t \in Tids : SetStartedAt(t)
    \/ \E t \in Tids : MakeDirs(t)
    \/ \E t \in Tids : SetDownloadingAgain(t)
    \/ \E t \in Tids : RunYtDlp(t)
    \/ \E t \in Tids : LocateFile(t)
    \/ \E t \in Tids : SetUploading(t)
    \/ \E t \in Tids : Upload(t)
    \/ \E t \in Tids : RemoveFile(t)
    \/ \E t \in Tids : RemoveDir(t)
    \/ \E t \in Tids : SetCompleted(t)
    \/ \E t \in Tids : SetS3Uri(t)
    \/ \E t \in Tids : SetCompletedAt(t)
    \/ \E t \in Tids : SetFailed(t)
    \/ \E t \in Tids : SetError(t)
    \/ \E t \in Tids : SetFailedAt(t)

Spec == Init /\ [][Next]_vars

\* the dispatcher, its clients posting objects and arrays, while no worker
\* thread has been scheduled yet
NextDispatch == Dispatch(Bodies)

SpecDispatch == Init /\ [][NextDispatch]_vars

\* ------------------------------------------------------------ the two probes
\* the two tests on the channel parameter, then the command is built
Validate(route, channel, url) ==
    /\ probe.pc = "idle"
    /\ probe' =
         IF channel = <<>>
         THEN [IdleProbe EXCEPT !.pc = "returned", !.route = route, !.channel = channel,
                 !.response = ProbeResponse(400, Absent, Absent, "Missing channel parameter", Absent)]
         ELSE IF ~ChannelMatch(channel)
         THEN [IdleProbe EXCEPT !.pc = "returned", !.route = route, !.channel = channel,
                 !.response = ProbeResponse(400, Absent, Absent, "Invalid channel format", Absent)]
         ELSE [IdleProbe EXCEPT !.pc = "run", !.route = route, !.channel = channel, !.url = url]
    /\ UNCHANGED <<BACKUP_BUCKET, jobs, threads, dirs, files, req>>

\* check_live up to the try statement
CheckLiveRequest(channel) == Validate("check-live", channel, LiveUrl(channel))

\* subprocess.run(cmd, timeout=15) and everything after it
CheckLiveRun ==
    /\ probe.pc = "run"
    /\ probe.route = "check-live"
    /\ \E outcome \in Outcomes :
         probe' = [probe EXCEPT !.pc = "returned", !.outcome = outcome,
                                !.response = CheckLiveResult(outcome)]
    /\ UNCHANGED <<BACKUP_BUCKET, jobs, threads, dirs, files, req>>

\* channel_info up to the try statement
ChannelInfoRequest(channel) == Validate("channel-info", channel, InfoUrl(channel))

\* subprocess.run(cmd, timeout=20) and everything after it
ChannelInfoRun ==
    /\ probe.pc = "run"
    /\ probe.route = "channel-info"
    /\ \E outcome \in Outcomes :
         probe' = [probe EXCEPT !.pc = "returned", !.outcome = outcome,
                                !.response = ChannelInfoResult(outcome)]
    /\ UNCHANGED <<BACKUP_BUCKET, jobs, threads, dirs, files, req>>

\* the response is sent
ProbeClose ==
    /\ probe.pc = "returned"
    /\ probe' = IdleProbe
    /\ UNCHANGED <<BACKUP_BUCKET, jobs, threads, dirs, files, req>>

\* the service answering probes, one at a time
NextProbe ==
    \/ \E channel \in Channels : CheckLiveRequest(channel)
    \/ CheckLiveRun
    \/ \E channel \in Channels : ChannelInfoRequest(channel)
    \/ ChannelInfoRun
    \/ ProbeClose

SpecProbe == Init /\ [][NextProbe]_vars

\* ============================================================ properties
Terminal == {"completed", "failed"}
Edges ==
    { <<"queued", "downloading">>, <<"downloading", "uploading">>,
      <<"uploading", "completed">>, <<"downloading", "failed">>,
      <<"uploading", "failed">> }

\* the worker threads bound to a job_id
ThreadsOf(job_id) == {t \in Tids : threads[t].job_id = job_id}

\* C1: the status a query reads for a job only ever moves along queued ->
\* downloading -> uploading -> completed, downloading -> failed or uploading ->
\* failed; it never goes back, and never returns to queued.
C1_StatusMonotonic ==
    [][\A j \in DOMAIN jobs :
          \/ JobStatus(j)'.body.status = JobStatus(j).body.status
          \/ <<JobStatus(j).body.status, JobStatus(j)'.body.status>> \in Edges]_vars

\* C2: whatever a query reads, a completed job carries s3_uri and completed_at,
\* a failed job carries error and failed_at, a downloading job carries started_at.
C2_NoTornRecord ==
    \A j \in DOMAIN jobs :
        LET r == JobStatus(j).body
        IN /\ r.status = "completed" => (r.s3_uri # NoTuple /\ r.completed_at # Absent)
           /\ r.status = "failed" => (r.error # NoTuple /\ r.failed_at # Absent)
           /\ r.status = "downloading" => r.started_at # Absent

\* C3: once a query can read a terminal status for a job, every later query
\* for that job_id reads the same record.
C3_TerminalRecordFrozen ==
    [][\A j \in DOMAIN jobs :
          JobStatus(j).body.status \in Terminal => JobStatus(j)' = JobStatus(j)]_vars

\* C4: a job reads completed only if a worker of that job ran a fetch that
\* exited 0, located an artifact, and ran an upload of that artifact that exited 0.
C4_CompletedMeansPersisted ==
    \A j \in DOMAIN jobs :
        jobs[j].status = "completed" =>
            \E t \in ThreadsOf(j) :
                /\ threads[t].fetches = <<0>>
                /\ threads[t].local_path \in ExtSet
                /\ Len(threads[t].uploads) = 1
                /\ threads[t].uploads[1].rc = 0
                /\ threads[t].uploads[1].uri[3] = threads[t].local_path

C4_Witness ==
    \E j \in DOMAIN jobs : jobs[j].status = "completed" /\ jobs[j].completed_at # Absent

\* what the error of a finished worker has to say, from the commands it ran
CauseOf(th) ==
    IF th.fetches = <<>> THEN <<"makedirs failed">>
    ELSE IF th.fetches[1] # 0 THEN <<"yt-dlp failed with return code", th.fetches[1]>>
    ELSE IF th.uploads = <<>> THEN <<"Could not find downloaded file">>
    ELSE <<"S3 upload failed with return code", th.uploads[1].rc>>

FailedEarly(th) ==
    \/ th.fetches = <<>>
    \/ th.fetches[1] # 0
    \/ th.uploads = <<>>
    \/ th.uploads[1].rc # 0

\* C5: a worker whose makedirs raised, whose fetch exited non-zero, that found
\* no artifact, or whose upload exited non-zero runs no later step, has run each
\* command at most once, and leaves its job failed with the causing message
\* (exit code included) in error and with failed_at.
C5_FailureCaptured ==
    \A t \in Tids :
        LET th == threads[t]
            r == JobStatus(th.job_id).body
        IN /\ Len(th.fetches) <= 1 /\ Len(th.uploads) <= 1
           /\ (th.fetches # <<>> /\ th.fetches[1] # 0) => th.uploads = <<>>
           /\ (th.uploads # <<>> /\ th.uploads[1].rc # 0) =>
                  th.pc \in {"l213", "l214", "l215", "done"}
           /\ (th.pc = "done" /\ FailedEarly(th)) =>
                  /\ r.status = "failed"
                  /\ r.error = CauseOf(th)
                  /\ r.failed_at # Absent

\* C6: a worker whose fetch and upload both exited 0 leaves its job completed,
\* with s3_uri and completed_at, also when os.remove or os.rmdir raised.
C6_CleanupErrorNotFailure ==
    \A t \in Tids :
        LET th == threads[t]
            r == JobStatus(th.job_id).body
        IN (th.pc = "done" /\ ~FailedEarly(th)) =>
               /\ r.status = "completed"
               /\ r.s3_uri # NoTuple
               /\ r.completed_at # Absent

\* C7: the bucket a worker uploads to is the bucket the dispatcher validated
\* for its item: the default bucket when the item has none.
C7_UploadsToValidatedBucket ==
    \A t \in Tids :
        threads[t].uploads # <<>> =>
            threads[t].uploads[1].uri[1] = DispatchBucket(threads[t].item, BACKUP_BUCKET)

\* C8: the job_id a submission is registered under is not yet in the registry,
\* so registering never replaces a record.
C8_FreshJobId ==
    [][(req.pc = "loop" /\ req'.pc = "start") => req'.job_id \notin DOMAIN jobs]_vars

\* ------------------------------------------------------------ C9, C10
\* an item that lacks videoId, videoUrl or a usable bucket
MissingField(item) ==
    \/ item.videoId = Absent
    \/ item.videoUrl = Absent
    \/ (item.bucket = Absent /\ BACKUP_BUCKET = None)

\* result r answers item: an acknowledgment of a registered job for an item
\* with all its fields, a per-item failure otherwise
Answers(r, item) ==
    IF MissingField(item)
    THEN r.success = "False" /\ r.videoId = Get(item, "videoId") /\ r.job_id = NoTuple
    ELSE /\ r.status = "queued"
         /\ r.video_id = item.videoId
         /\ r.job_id \in DOMAIN jobs
         /\ r.job_id[1] = item.videoId

\* the empty array [] and the empty object {}
EmptyBody(data) == data.items = <<>> \/ (~data.list /\ data.items = <<EmptyItem>>)

\* C9 as stated: an object body gets one result object, an array body of N
\* items gets an array of N results, the i-th answering the i-th item.
C9_Cardinality ==
    req.pc = "returned" =>
        IF req.data.list
        THEN /\ req.response.shape = "array"
             /\ Len(req.response.many) = Len(req.data.items)
             /\ \A k \in 1..Len(req.data.items) :
                    Answers(req.response.many[k], req.data.items[k])
        ELSE req.response.shape = "object"

\* C9 amended: the same for an object body and for an array of N >= 1 items;
\* the empty array and the object {} get one 400 error object and no results.
C9_CardinalityNonEmpty ==
    req.pc = "returned" =>
        IF EmptyBody(req.data)
        THEN /\ req.response.code = 400
             /\ req.response.shape = "object"
             /\ req.response.one.error = "No JSON body provided"
        ELSE IF req.data.list
        THEN /\ req.response.shape = "array"
             /\ Len(req.response.many) = Len(req.data.items)
             /\ \A k \in 1..Len(req.data.items) :
                    Answers(req.response.many[k], req.data.items[k])
        ELSE /\ req.response.shape = "object"
             /\ Answers(req.response.one, req.data.items[1])

C9_Witness ==
    /\ req.pc = "returned"
    /\ req.data.list
    /\ Len(req.response.many) = MaxItems
    /\ \E k \in 1..MaxItems : MissingField(req.data.items[k])
    /\ \E k \in 1..MaxItems : ~MissingField(req.data.items[k])

\* C10: while the dispatcher is at an item that lacks a field, no record is
\* stored and no thread is started; and every item of the body that has its
\* fields is registered and has its thread when the dispatcher returns.
C10_RejectHasNoEffect ==
    /\ [][(req.pc \in {"loop", "start"} /\ req.i <= Len(req.data.items)
            /\ MissingField(req.data.items[req.i]))
          => (jobs' = jobs /\ threads' = threads /\ req'.pc = "loop")]_vars
    /\ [](req.pc = "returned" =>
            \A k \in 1..Len(req.data.items) :
                (~EmptyBody(req.data) /\ ~MissingField(req.data.items[k])) =>
                    /\ req.results[k].job_id \in DOMAIN jobs
                    /\ \E t \in ThreadsOf(req.results[k].job_id) :
                           threads[t].item = req.data.items[k])

\* a body whose first item lacks a field and whose second does not has been
\* handled: one record, one thread
C10_Witness ==
    /\ req.pc = "returned"
    /\ Len(req.data.items) = 2
    /\ MissingField(req.data.items[1])
    /\ ~MissingField(req.data.items[2])
    /\ Cardinality(DOMAIN jobs) = 1
    /\ Len(threads) = 1

\* the worker t takes a step that leaves the statement at label
Leaves(t, label) == threads[t].pc = label /\ threads'[t].pc # label

\* C11: a worker starts aws s3 cp only after its one yt-dlp run exited 0 and
\* its file was located, and removes the file or the directory only after its
\* one aws s3 cp run exited 0; whenever a file or a directory disappears, the
\* step is the os.remove or os.rmdir of a worker whose upload exited 0; no
\* worker runs a command twice
C11_StepOrder ==
    /\ [][\A t \in Tids :
            /\ Leaves(t, "l199") =>
                 /\ threads[t].fetches = <<0>>
                 /\ threads[t].local_path \in ExtSet
                 /\ threads[t].uploads = <<>>
            /\ (Leaves(t, "l203") \/ Leaves(t, "l204")) =>
                 /\ threads[t].fetches = <<0>>
                 /\ Len(threads[t].uploads) = 1
                 /\ threads[t].uploads[1].rc = 0]_vars
    /\ [][((\E v \in VideoIds : ~(files[v] \subseteq files'[v])) \/ ~(dirs \subseteq dirs'))
            => \E t \in Tids :
                 /\ Leaves(t, "l203") \/ Leaves(t, "l204")
                 /\ Len(threads[t].uploads) = 1
                 /\ threads[t].uploads[1].rc = 0]_vars
    /\ [](\A t \in Tids : Len(threads[t].fetches) <= 1 /\ Len(threads[t].uploads) <= 1)

\* a worker has fetched, uploaded, removed its file and its directory
C11_Witness ==
    \E t \in Tids :
        /\ At(t, "l206")
        /\ threads[t].fetches = <<0>>
        /\ threads[t].uploads[1].rc = 0
        /\ threads[t].local_path \notin files[VideoOf(t)]
        /\ VideoOf(t) \notin dirs

\* ------------------------------------------------------------ fair scheduling
\* the next statement of the worker thread t, whichever it is
Worker(t) ==
    /\ t \in Tids
    /\ \/ SetDownloading(t) \/ SetStartedAt(t) \/ MakeDirs(t) \/ SetDownloadingAgain(t)
       \/ RunYtDlp(t) \/ LocateFile(t) \/ SetUploading(t) \/ Upload(t)
       \/ RemoveFile(t) \/ RemoveDir(t)
       \/ SetCompleted(t) \/ SetS3Uri(t) \/ SetCompletedAt(t)
       \/ SetFailed(t) \/ SetError(t) \/ SetFailedAt(t)

\* the next statement of the request thread inside download()
Handler == RejectItem \/ Register \/ StartThread \/ Return

\* the bodies of the clients of the fair service: an item that names no
\* bucket, accepted when BACKUP_BUCKET is set and rejected when it is not
FairBodies == {Single(MkItem("v1", "u1", Absent, Absent))}

NextFair == Dispatch(FairBodies) \/ \E t \in Tids : Worker(t)

\* the service when every started thread keeps being scheduled and every
\* yt-dlp and aws process ends (the wait() of lines 123 and 166 returns)
SpecFair ==
    /\ Init
    /\ [][NextFair]_vars
    /\ WF_vars(Handler)
    /\ \A t \in 1..MaxPipelines : WF_vars(Worker(t))

\* C12: under fair scheduling, a job whose record shows queued, downloading or
\* uploading is later shown completed or failed
C12_EventuallyTerminal ==
    \A j \in JobIds :
        (j \in DOMAIN jobs /\ jobs[j].status \notin Terminal)
            ~> (j \in DOMAIN jobs /\ jobs[j].status \in Terminal)

\* a worker whose upload failed has ended, and the record shows failed
C12_Witness ==
    \E t \in Tids :
        /\ At(t, "done")
        /\ Len(threads[t].uploads) = 1
        /\ threads[t].uploads[1].rc # 0
        /\ jobs[threads[t].job_id].status = "failed"

\* C13: a record has s3_uri or completed_at only with status completed, error
\* or failed_at only with status failed, never both s3_uri and error; and a
\* worker writes started_at, s3_uri, completed_at, error, failed_at only into
\* a record that does not have the key yet
C13_OutcomeFieldsExclusive ==
    /\ [](\A j \in DOMAIN jobs :
            /\ (jobs[j].s3_uri # NoTuple \/ jobs[j].completed_at # Absent)
                 => jobs[j].status = "completed"
            /\ (jobs[j].error # NoTuple \/ jobs[j].failed_at # Absent)
                 => jobs[j].status = "failed"
            /\ ~(jobs[j].s3_uri # NoTuple /\ jobs[j].error # NoTuple))
    /\ [][\A t \in Tids :
            /\ Leaves(t, "l184") => jobs[threads[t].job_id].started_at = Absent
            /\ Leaves(t, "l207") => jobs[threads[t].job_id].s3_uri = NoTuple
            /\ Leaves(t, "l208") => jobs[threads[t].job_id].completed_at = Absent
            /\ Leaves(t, "l214") => jobs[threads[t].job_id].error = NoTuple
            /\ Leaves(t, "l215") => jobs[threads[t].job_id].failed_at = Absent]_vars

\* every character of the channel parameter is in [A-Za-z0-9@_-], and there is one
AllClassChars(channel) ==
    channel # <<>> /\ \A k \in 1..Len(channel) : channel[k] \in ClassChars

\* C14: a probe request whose channel has a character outside the class (or
\* none at all) is answered 400 and no command is built or run for it; one
\* whose channel is non-empty and all of class characters goes on to
\* subprocess.run
C14_ValidationPrecedesInvocation ==
    probe.pc # "idle" =>
        IF AllClassChars(probe.channel)
        THEN probe.url # NoTuple /\ (probe.pc = "run" \/ probe.outcome.kind # "none")
        ELSE /\ probe.pc = "returned"
             /\ probe.response.code = 400
             /\ probe.url = NoTuple
             /\ probe.outcome.kind = "none"

\* the text has the needle in some line, whatever the case of its letters
Mentions(text, needle) == \E line \in text : needle \in NeedlesIn(LowerLine(line))

\* the rules of the classification policy that a completed invocation matches
Matching(outcome) ==
    {n \in 1..6 :
        \/ n = 1 /\ (Mentions(outcome.stderr, "join this channel")
                     \/ Mentions(outcome.stderr, "members-only"))
        \/ n = 2 /\ (Mentions(outcome.stderr, "sign in") \/ Mentions(outcome.stderr, "cookie"))
        \/ n = 3 /\ (Mentions(outcome.stderr, "429")
                     \/ Mentions(outcome.stderr, "too many requests"))
        \/ n = 4 /\ (Mentions(outcome.stderr, "404") \/ Mentions(outcome.stderr, "does not exist"))
        \/ n = 5 /\ outcome.rc = 0 /\ JsonLoads(outcome.stdout).ok
                 /\ JsonLoads(outcome.stdout).is_live = "True"
        \/ n = 6}

FirstRule(outcome) ==
    CHOOSE n \in Matching(outcome) : \A m \in Matching(outcome) : n <= m

\* the rule a response of check_live belongs to, told by its status code,
\* is_live, and whether error is null
RuleOf(r) ==
    CASE r.code = 200 /\ r.is_live = "False" /\ r.stream = None /\ r.error # None -> 1
      [] r.code = 401 /\ r.is_live = "False" /\ r.stream = None /\ r.error # None -> 2
      [] r.code = 429 /\ r.is_live = "False" /\ r.stream = None /\ r.error # None -> 3
      [] r.code = 404 /\ r.is_live = "False" /\ r.stream = None /\ r.error # None -> 4
      [] r.code = 200 /\ r.is_live = "True" /\ r.stream # None /\ r.error = None -> 5
      [] r.code = 200 /\ r.is_live = "False" /\ r.stream = None /\ r.error = None -> 6
      [] OTHER -> 0

\* check_live has answered a request whose yt-dlp run came to its end
LiveCompleted ==
    probe.pc = "returned" /\ probe.route = "check-live" /\ probe.outcome.kind = "completed"

\* C15: whatever stderr, exit code and stdout a completed yt-dlp run leaves,
\* the answer of check_live is that of the first rule, in the order 1..6, that
\* the run matches, letters compared without their case
C15_FirstMatchWins ==
    LiveCompleted => RuleOf(probe.response) = FirstRule(probe.outcome)

\* stderr has a "Sign in" line and a "--cookies" line and nothing of the
\* members-only rule, stdout declares a live stream, and the answer is the
\* 401 of the sign-in rule
C15_Witness ==
    /\ LiveCompleted
    /\ probe.outcome.stderr =
         {"ERROR: Sign in to confirm you're not a bot", "Use --cookies for the authentication"}
    /\ probe.outcome.rc = 0
    /\ probe.outcome.stdout = JsonLive
    /\ probe.response.code = 401
    /\ probe.response.error = "auth_expired"

\* check_live has answered a request for which it called subprocess.run
LiveInvoked ==
    probe.pc = "returned" /\ probe.route = "check-live" /\ probe.outcome.kind # "none"

\* C16: the error of an answer of check_live is one of the tags
\* members_only_no_access, auth_expired (401), rate_limited (429),
\* channel_not_found (404), probe_failed (500), or null
C16_StableTags ==
    LiveInvoked =>
        LET r == probe.response
        IN /\ r.error \in {"members_only_no_access", "auth_expired", "rate_limited",
                           "channel_not_found", "probe_failed", None}
           /\ r.error = "auth_expired" <=> r.code = 401
           /\ r.error = "rate_limited" <=> r.code = 429
           /\ r.error = "channel_not_found" <=> r.code = 404
           /\ r.error = "probe_failed" <=> r.code = 500

\* C17: when subprocess.run of check_live times out or raises, the answer is
\* is_live false, stream null, an error that is not null, status 500; and the
\* answer to a timeout differs from the answer to every other exception
C17_FailuresNormalized ==
    (LiveInvoked /\ probe.outcome.kind \in {"timeout", "raised"}) =>
        /\ probe.response.code = 500
        /\ probe.response.is_live = "False"
        /\ probe.response.stream = None
        /\ probe.response.error \notin {None, Absent}
        /\ probe.outcome.kind = "timeout" =>
             \A o \in RaisedOutcomes : CheckLiveResult(o) # probe.response
        /\ probe.outcome.kind = "raised" => CheckLiveResult(TimeoutOutcome) # probe.response

\* check_live has answered a request whose yt-dlp run timed out
C17_Witness ==
    /\ LiveInvoked
    /\ probe.outcome.kind = "timeout"
    /\ probe.response.code = 500
    /\ probe.response.detail = "Timeout"

Statuses == {"queued", "downloading", "uploading", "completed", "failed"}

\* the job_ids download() has given out: those of the acknowledgments it has
\* appended and of the threads it has started
GivenOut ==
    {req.results[k].job_id : k \in {n \in 1..Len(req.results) : req.results[n].job_id # NoTuple}}
        \cup {threads[t].job_id : t \in Tids}

\* C18: a thread is started only for a job_id whose record is in the table;
\* no job_id ever has more than one thread bound to it, and an acknowledged
\* job_id has exactly one; the acknowledgment is appended while the thread
\* has not run yet; every thread's job_id is in the table; and GET /status of
\* a job_id given out answers 200 with one of the five statuses
C18_RegisterThenLaunch ==
    /\ [][Len(threads') > Len(threads) =>
            /\ Len(threads') = Len(threads) + 1
            /\ threads'[Len(threads')].job_id \in DOMAIN jobs
            /\ jobs[threads'[Len(threads')].job_id].status = "queued"
            /\ threads'[Len(threads')].pc = "l183"
            /\ Len(req'.results) = Len(req.results) + 1]_vars
    /\ [](\A j \in DOMAIN jobs : Cardinality(ThreadsOf(j)) <= 1)
    /\ [](\A k \in 1..Len(req.results) :
            req.results[k].job_id # NoTuple => Cardinality(ThreadsOf(req.results[k].job_id)) = 1)
    /\ [](\A j \in GivenOut :
            /\ JobStatus(j).code = 200
            /\ JobStatus(j).body.status \in Statuses)

\* C19: once a record is in the table, every step that changes it is a step
\* of the one worker thread bound to its job_id; the dispatcher does not store
\* a record under a job_id that has one
C19_SingleWriter ==
    [][\A j \in DOMAIN jobs :
         jobs'[j] # jobs[j] =>
             /\ Cardinality(ThreadsOf(j)) = 1
             /\ \A t \in ThreadsOf(j) : threads'[t].pc # threads[t].pc
             /\ req' = req]_vars

\* the worker t is between its entry into downloading and its terminal status
InFlight(t) == threads[t].pc \notin {"l183", "l207", "l208", "l214", "l215", "done"}

\* the worker u takes a step that touches the directory of its video id: it
\* creates it, writes into it, looks into it, uploads from it, or removes
\* from it
TouchesDir(u) ==
    \/ Leaves(u, "l191") \/ Leaves(u, "l109") \/ Leaves(u, "l125")
    \/ Leaves(u, "l199") \/ Leaves(u, "l203") \/ Leaves(u, "l204")

\* C20: while a job is in flight, no worker of another job touches the
\* directory the job works in
C20_WorkspaceExclusive ==
    [][\A t \in Tids : \A u \in Tids :
         (/\ threads[t].job_id # threads[u].job_id
          /\ InFlight(t)
          /\ VideoOf(t) = VideoOf(u))
             => ~TouchesDir(u)]_vars

====
